---- MODULE Spec2Model ----
(***************************************************************************)
(* Aave v3 liquidation watcher (src/src/watcher.ts) and its Telegram alert *)
(* queue (src/src/utils/alert.ts) as a state machine.                      *)
(*                                                                         *)
(* The program runs on one Node.js event loop: every action below is one   *)
(* callback (or the synchronous part of an async function up to its next   *)
(* await), executed atomically.                                            *)
(*                                                                         *)
(* Time is the wall clock in milliseconds (Date.now()).  Health factors    *)
(* are in hundredths (1.05 is 105).  An address is a sequence of           *)
(* characters, so that String.toLowerCase is a real conversion.            *)
(***************************************************************************)
EXTENDS Integers, Sequences, FiniteSets

VARIABLES
    \* ---- watcher.ts: configuration read at start-up
    TEST_MODE,          \* watcher.ts:37
    providers,          \* watcher.ts:65  the WebSocketProvider array (provider ids)
    allUsers,           \* watcher.ts:274 the list fullScan walks
    \* ---- watcher.ts: connection handling
    wsState,            \* readyState of each provider's websocket
    activeProvider,     \* watcher.ts:64
    poolRunner,         \* the provider poolContract was constructed with (watcher.ts:120-124)
    \* ---- watcher.ts: health check scheduling
    activeChecks,       \* watcher.ts:40
    activeUsers,        \* watcher.ts:41
    lastCheck,          \* watcher.ts:42  Map<string, number>
    userHealthCache,    \* watcher.ts:43  Map<string, number>
    pc,                 \* where each checkUserHealth(user) invocation is suspended
    \* ---- watcher.ts: periodic full scan
    scanPos,            \* per fullScan invocation: index of the next list entry, 0 before it starts
    scanWait,           \* per fullScan invocation: the key whose check it awaits
    \* ---- alert.ts
    bot,                \* alert.ts:15-24  TRUE when the Telegram bot is configured
    ALERT_QUEUE,        \* alert.ts:31
    sending,            \* alert.ts:32
    timers,             \* pending setTimeout(processQueue, ...) callbacks: their due times
    inflight,           \* bot.sendMessage promises not yet settled (message ids)
    \* ---- the clock
    now,                \* Date.now()
    \* ---- observation (history) variables, never read by the program
    queryVia,           \* per user: provider carrying the outstanding query, and
    activeAtIssue,      \*           activeProvider at the moment it was issued
    issuedAt,           \* per user: nowSeconds() of the latest two queries issued
    scanCalls,          \* per fullScan invocation: the keys it passed to checkUserHealth
    handed,             \* number of sendAlert calls so far; call n carries message n
    attempts,           \* message ids in the order their delivery was started
    failed,             \* message ids whose delivery was rejected
    lastStartAt,        \* time the latest delivery attempt started
    lastFinishAt        \* time the attempt before it settled

configVars == <<TEST_MODE, providers, bot, allUsers>>
poolVars   == <<wsState, activeProvider, poolRunner>>
checkVars  == <<activeChecks, activeUsers, lastCheck, userHealthCache, pc>>
checkObs   == <<queryVia, activeAtIssue, issuedAt>>
alertVars  == <<ALERT_QUEUE, sending, timers, inflight>>
alertObs   == <<handed, attempts, failed, lastStartAt, lastFinishAt>>
scanVars   == <<scanPos, scanWait>>
scanObs    == <<scanCalls>>
vars == <<configVars, poolVars, checkVars, checkObs, alertVars, alertObs,
          scanVars, scanObs, now>>

---------------------------------------------------------------------------
(* Bounds of the model and program constants *)

\* Date.now() when the process starts, and the last instant the clock is
\* followed to (milliseconds).
EpochStartMs == 1000
MaxClock == 3000
\* Most messages ever handed to sendAlert in one run.
MaxAlerts == 3
\* Most times the setInterval timer of fullScan fires in one run.
MaxScans == 2

\* Configuration values (environment variables), instantiated small.
USER_DEBOUNCE_SECONDS == 2
MAX_CONCURRENT_CHECKS == 2
HF_THRESHOLD == 105

TELEGRAM_INTERVAL_MS == 1000
\* Granularity with which the clock is observed.
TickMs == TELEGRAM_INTERVAL_MS \div 2

\* activeProvider = null
NoProvider == 0
\* Number.POSITIVE_INFINITY, above every health factor of the model
Infinity == 1000000
\* absent time stamp of the observation variables
Never == 0 - 1
\* no key: a fullScan invocation that awaits no check
NoUser == <<>>

\* PROVIDER_URLS holds WSS_URL and, when set, WSS_URL_SECONDARY
ProviderLists == { <<1>>, <<1, 2>> }
ProviderIds == {1, 2}

---------------------------------------------------------------------------
(* Addresses *)

\* String.prototype.toLowerCase on the characters used
LowerChar(c) ==
    CASE c = "A" -> "a"
      [] c = "B" -> "b"
      [] c = "C" -> "c"
      [] OTHER -> c

toLowerCase(s) == [i \in DOMAIN s |-> LowerChar(s[i])]

\* Addresses as ethers hands them to listeners and as decodeFunctionData
\* returns them: EIP-55 checksum case.  The second one's checksum form has
\* no upper-case letter.
ChainAddresses == { <<"A", "b">>, <<"c", "1">> }

\* Every string checkUserHealth can be called with
Users == ChainAddresses \cup { toLowerCase(a) : a \in ChainAddresses }

\* healthFactor values getUserAccountData can return, each a one-element
\* tuple; the empty tuple is a value formatUnits throws on.
RawHealthFactors == { <<98>>, <<105>>, <<>> }

---------------------------------------------------------------------------
(* utils/alert.ts *)

\* Faulty variant: ALERT_QUEUE.pop() in place of shift()
ShiftFromBack(q) == [item |-> q[Len(q)], rest |-> SubSeq(q, 1, Len(q) - 1)]

\* ALERT_QUEUE.shift(): the item taken and the queue left
Shift(q) == [item |-> Head(q), rest |-> Tail(q)]

\* Faulty variant: the guard without the sending flag
CanSendIgnoringFlag(q) == bot /\ q # <<>>

\* the guard of processQueue
CanSend(q) == bot /\ ~sending /\ q # <<>>

\* processQueue(), run on queue q (the queue as the caller left it)
processQueue(q) ==
    IF ~CanSend(q)
    THEN /\ ALERT_QUEUE' = q
         /\ UNCHANGED <<sending, inflight, attempts, lastStartAt>>
    ELSE /\ sending' = TRUE
         /\ ALERT_QUEUE' = Shift(q).rest
         /\ inflight' = inflight \cup {Shift(q).item}
         /\ attempts' = Append(attempts, Shift(q).item)
         /\ lastStartAt' = now

\* sendAlert(message): without a bot the message is only printed
sendAlert ==
    /\ handed' = handed + 1
    /\ IF ~bot
       THEN UNCHANGED <<ALERT_QUEUE, sending, inflight, attempts, lastStartAt>>
       ELSE processQueue(Append(ALERT_QUEUE, handed + 1))
    /\ UNCHANGED <<timers, failed, lastFinishAt>>

\* Faulty variant: a rejected message is put back at the front of the queue
AfterSendErrorRetry(q, id) == <<id>> \o q

\* what the .catch handler leaves of the queue after message id was rejected
AfterSendError(q, id) == q

\* Faulty variant: the .finally handler sets no timer
ScheduleNever(q, ts) == ts

\* the .finally handler's timers: one more when the queue is not empty
ScheduleNext(q, ts) ==
    IF Len(q) > 0 THEN Append(ts, now + TELEGRAM_INTERVAL_MS) ELSE ts

\* bot.sendMessage settles for message id: .catch (when rejected), then .finally
DeliveryDone(id, ok) ==
    /\ id \in inflight
    /\ inflight' = inflight \ {id}
    /\ failed' = IF ok THEN failed ELSE failed \cup {id}
    /\ sending' = FALSE
    /\ ALERT_QUEUE' = IF ok THEN ALERT_QUEUE ELSE AfterSendError(ALERT_QUEUE, id)
    /\ timers' = ScheduleNext(ALERT_QUEUE', timers)
    /\ lastFinishAt' = now
    /\ UNCHANGED <<handed, attempts, lastStartAt>>
    /\ UNCHANGED <<configVars, poolVars, checkVars, checkObs, scanVars, scanObs, now>>

DeliverySettles == \E id \in inflight, ok \in BOOLEAN : DeliveryDone(id, ok)

\* a setTimeout(processQueue, TELEGRAM_INTERVAL_MS) callback runs; all timers
\* have the same delay, so they run in the order they were set
TimerFire ==
    /\ timers # <<>>
    /\ Head(timers) <= now
    /\ timers' = Tail(timers)
    /\ processQueue(ALERT_QUEUE)
    /\ UNCHANGED <<handed, failed, lastFinishAt>>
    /\ UNCHANGED <<configVars, poolVars, checkVars, checkObs, scanVars, scanObs, now>>

\* the MINED_TRANSACTIONS listener (watcher.ts:248-263)
OnMinedTransaction ==
    /\ handed < MaxAlerts
    /\ sendAlert
    /\ UNCHANGED <<configVars, poolVars, checkVars, checkObs, scanVars, scanObs, now>>

\* time passes; past MaxClock only as far as a pending timer needs
Tick ==
    /\ \/ now < MaxClock
       \/ timers # <<>> /\ Head(timers) > now
    /\ now' = now + TickMs
    /\ UNCHANGED <<configVars, poolVars, checkVars, checkObs, alertVars, alertObs,
                   scanVars, scanObs>>

---------------------------------------------------------------------------
(* watcher.ts: multi-provider set-up *)

Range(f) == { f[i] : i \in DOMAIN f }

\* watcher.ts:95-97, run once after the providers are created
InitialActive(ps) == IF Len(ps) > 0 THEN ps[1] ELSE NoProvider

\* watcher.ts:120-124: the runner given to the poolContract constructor
ContractRunner(active, ps) == IF active # NoProvider THEN active ELSE ps[1]

\* Faulty variant: the close handler finds no fallback
FallbackNone(provider) == NoProvider

\* providers.find((p) => p !== provider), undefined (here NoProvider) if none
Fallback(provider) ==
    LET others == { i \in DOMAIN providers : providers[i] # provider }
    IN  IF others = {} THEN NoProvider
        ELSE providers[CHOOSE i \in others : \A j \in others : i <= j]

\* ws "open"
WsOpen(provider) ==
    /\ provider \in Range(providers)
    /\ wsState[provider] \in {"Connecting", "Closed"}
    /\ wsState' = [wsState EXCEPT ![provider] = "Open"]
    /\ activeProvider' =
          IF activeProvider = NoProvider THEN provider ELSE activeProvider
    /\ UNCHANGED <<configVars, poolRunner, checkVars, checkObs, alertVars, alertObs,
                   scanVars, scanObs, now>>

\* ws "close"
WsClose(provider) ==
    /\ provider \in Range(providers)
    /\ wsState[provider] \in {"Connecting", "Open", "Errored"}
    /\ wsState' = [wsState EXCEPT ![provider] = "Closed"]
    /\ activeProvider' = Fallback(provider)
    /\ UNCHANGED <<configVars, poolRunner, checkVars, checkObs, alertVars, alertObs,
                   scanVars, scanObs, now>>

\* ws "error": logged only
WsError(provider) ==
    /\ provider \in Range(providers)
    /\ wsState[provider] \in {"Connecting", "Open"}
    /\ wsState' = [wsState EXCEPT ![provider] = "Errored"]
    /\ UNCHANGED <<configVars, activeProvider, poolRunner, checkVars, checkObs,
                   alertVars, alertObs, scanVars, scanObs, now>>

---------------------------------------------------------------------------
(* watcher.ts: concurrency and debounce *)

nowSeconds == now \div 1000

\* the last two elements of a sequence
LastTwo(q) == IF Len(q) <= 2 THEN q ELSE SubSeq(q, Len(q) - 1, Len(q))

\* Map.prototype.set
MapSet(m, k, v) == [x \in DOMAIN m \cup {k} |-> IF x = k THEN v ELSE m[x]]

\* Faulty variant: no debounce
shouldSkipUserNever(user) == FALSE

shouldSkipUser(user) ==
    IF user \notin DOMAIN lastCheck \/ lastCheck[user] = 0
    THEN FALSE
    ELSE nowSeconds - lastCheck[user] < USER_DEBOUNCE_SECONDS

parseHealthFactor(hf) == IF hf = <<>> THEN Infinity ELSE hf[1]

\* Faulty variant: the cap compared with > in place of >=
CapReachedOffByOne == activeChecks > MAX_CONCURRENT_CHECKS

\* activeChecks >= MAX_CONCURRENT_CHECKS
CapReached == activeChecks >= MAX_CONCURRENT_CHECKS

\* handleLiquidation(user, hf): an alert in test mode, a log line otherwise
handleLiquidation ==
    IF TEST_MODE THEN sendAlert ELSE UNCHANGED <<alertVars, alertObs>>

\* Faulty variant: the threshold compared with < in place of <=
AtRiskStrict(hf) == hf < HF_THRESHOLD

\* hf <= HF_THRESHOLD
AtRisk(hf) == hf <= HF_THRESHOLD

\* the promise checkUserHealth(user) returned resolves: the fullScan
\* invocation awaiting it, if any, may go on
Resolved(user) ==
    [s \in DOMAIN scanWait |-> IF scanWait[s] = user THEN NoUser ELSE scanWait[s]]

\* Faulty variant: the finally block without activeUsers.delete(user)
FinallyKeepsMark(user) ==
    /\ activeChecks' = activeChecks - 1
    /\ activeUsers' = activeUsers
    /\ pc' = [pc EXCEPT ![user] = "idle"]
    /\ scanWait' = Resolved(user)

\* Faulty variant: the finally block without activeChecks--
FinallyNoDecrement(user) ==
    /\ activeChecks' = activeChecks
    /\ activeUsers' = activeUsers \ {user}
    /\ pc' = [pc EXCEPT ![user] = "idle"]
    /\ scanWait' = Resolved(user)

\* the finally block of checkUserHealth
Finally(user) ==
    /\ activeChecks' = activeChecks - 1
    /\ activeUsers' = activeUsers \ {user}
    /\ pc' = [pc EXCEPT ![user] = "idle"]
    /\ scanWait' = Resolved(user)

\* checkUserHealth(user) up to its await: the three early returns, then the
\* bookkeeping and the call of poolContract.getUserAccountData(user)
checkUserHealth(user) ==
    IF user \in activeUsers \/ shouldSkipUser(user) \/ CapReached
    THEN UNCHANGED <<checkVars, checkObs>>
    ELSE /\ activeChecks' = activeChecks + 1
         /\ activeUsers' = activeUsers \cup {user}
         /\ lastCheck' = MapSet(lastCheck, user, nowSeconds)
         /\ pc' = [pc EXCEPT ![user] = "query"]
         /\ queryVia' = [queryVia EXCEPT ![user] = poolRunner]
         /\ activeAtIssue' = [activeAtIssue EXCEPT ![user] = activeProvider]
         /\ issuedAt' = [issuedAt EXCEPT ![user] = LastTwo(Append(@, nowSeconds))]
         /\ UNCHANGED userHealthCache

\* onUserEvent(user), called by the Borrow/Repay/Deposit/Withdraw listeners
\* that every provider's contract registers (watcher.ts:174-179)
OnUserEvent(provider, user) ==
    /\ provider \in Range(providers)
    /\ wsState[provider] = "Open"
    /\ checkUserHealth(toLowerCase(user))
    /\ UNCHANGED <<configVars, poolVars, alertVars, alertObs, scanVars, scanObs, now>>

\* the PENDING_TRANSACTIONS listener on a liquidationCall whose third
\* argument decodes to user (watcher.ts:233-244)
OnPendingTransaction(user) ==
    /\ checkUserHealth(user)
    /\ UNCHANGED <<configVars, poolVars, alertVars, alertObs, scanVars, scanObs, now>>

\* getUserAccountData resolves with healthFactor raw: the rest of the try
\* block, and the finally block unless handleLiquidation is awaited
QueryResolve(user, raw) ==
    /\ pc[user] = "query"
    /\ wsState[queryVia[user]] = "Open"
    /\ LET hf == parseHealthFactor(raw)
           lastHf == IF user \in DOMAIN userHealthCache
                     THEN userHealthCache[user] ELSE Infinity
       IN  IF hf = lastHf
           THEN /\ Finally(user)
                /\ UNCHANGED <<userHealthCache, alertVars, alertObs>>
           ELSE /\ userHealthCache' = MapSet(userHealthCache, user, hf)
                /\ IF AtRisk(hf)
                   THEN /\ handleLiquidation
                        /\ pc' = [pc EXCEPT ![user] = "liquidation"]
                        /\ UNCHANGED <<activeChecks, activeUsers, scanWait>>
                   ELSE /\ Finally(user)
                        /\ UNCHANGED <<alertVars, alertObs>>
    /\ queryVia' = [queryVia EXCEPT ![user] = NoProvider]
    /\ activeAtIssue' = [activeAtIssue EXCEPT ![user] = NoProvider]
    /\ UNCHANGED <<configVars, poolVars, lastCheck, issuedAt, scanPos, scanObs, now>>

\* getUserAccountData rejects: catch, then finally
QueryReject(user) ==
    /\ pc[user] = "query"
    /\ Finally(user)
    /\ queryVia' = [queryVia EXCEPT ![user] = NoProvider]
    /\ activeAtIssue' = [activeAtIssue EXCEPT ![user] = NoProvider]
    /\ UNCHANGED <<configVars, poolVars, lastCheck, userHealthCache, issuedAt,
                   alertVars, alertObs, scanPos, scanObs, now>>

\* the awaited handleLiquidation promise resolves: finally
LiquidationReturn(user) ==
    /\ pc[user] = "liquidation"
    /\ Finally(user)
    /\ UNCHANGED <<configVars, poolVars, lastCheck, userHealthCache, checkObs,
                   alertVars, alertObs, scanPos, scanObs, now>>

---------------------------------------------------------------------------
(* watcher.ts: periodic full scan *)

\* the fullScan invocations of a run, one per firing of the setInterval timer
ScanIds == 1 .. MaxScans

\* Lists fullScan is followed over.  The list of the source is the empty
\* one; it is to be filled from the Aave subgraph, whose account ids are
\* lower-case addresses.
KnownLists ==
    LET a == toLowerCase(<<"A", "b">>)
        c == toLowerCase(<<"c", "1">>)
    IN  { <<>>, <<a>>, <<a, c>>, <<a, a>> }

\* Faulty variant: the loop does not move on
SamePos(idx) == idx

\* for (const user of allUsers): the entry after entry idx
NextPos(idx) == idx + 1

\* one pass of the loop body of fullScan, up to its await:
\* checkUserHealth(allUsers[idx]) runs to its first await or to an early
\* return, and the invocation awaits the promise it returned
ScanCall(s, idx) ==
    LET user == allUsers[idx]
    IN  /\ checkUserHealth(user)
        /\ scanPos' = [scanPos EXCEPT ![s] = NextPos(idx)]
        /\ scanWait' = [scanWait EXCEPT
                          ![s] = IF user \in activeUsers' \ activeUsers
                                 THEN user ELSE NoUser]
        /\ scanCalls' = [scanCalls EXCEPT ![s] = Append(@, user)]

\* the setInterval callback: fullScan() starts and runs to its first await
FullScanTick ==
    /\ \E s \in ScanIds :
         /\ scanPos[s] = 0
         /\ \A t \in ScanIds : t < s => scanPos[t] # 0
         /\ IF allUsers = <<>>
            THEN /\ scanPos' = [scanPos EXCEPT ![s] = 1]
                 /\ UNCHANGED <<checkVars, checkObs, scanWait, scanObs>>
            ELSE ScanCall(s, 1)
    /\ UNCHANGED <<configVars, poolVars, alertVars, alertObs, now>>

\* the awaited promise has resolved: the loop of invocation s goes on
ScanStep(s) ==
    /\ scanPos[s] \in 1 .. Len(allUsers)
    /\ scanWait[s] = NoUser
    /\ ScanCall(s, scanPos[s])
    /\ UNCHANGED <<configVars, poolVars, alertVars, alertObs, now>>

---------------------------------------------------------------------------
(* Initial state: the module bodies of alert.ts and watcher.ts have run *)

Start(list) ==
    /\ allUsers = list
    /\ scanPos = [s \in ScanIds |-> 0]
    /\ scanWait = [s \in ScanIds |-> NoUser]
    /\ scanCalls = [s \in ScanIds |-> <<>>]
    /\ TEST_MODE \in BOOLEAN
    /\ bot \in BOOLEAN
    /\ providers \in ProviderLists
    /\ wsState = [p \in Range(providers) |-> "Connecting"]
    /\ activeProvider = InitialActive(providers)
    /\ poolRunner = ContractRunner(activeProvider, providers)
    /\ activeChecks = 0
    /\ activeUsers = {}
    /\ lastCheck = <<>>
    /\ userHealthCache = <<>>
    /\ pc = [u \in Users |-> "idle"]
    /\ ALERT_QUEUE = <<>>
    /\ sending = FALSE
    /\ timers = <<>>
    /\ inflight = {}
    /\ now = EpochStartMs
    /\ queryVia = [u \in Users |-> NoProvider]
    /\ activeAtIssue = [u \in Users |-> NoProvider]
    /\ issuedAt = [u \in Users |-> <<>>]
    /\ handed = 0
    /\ attempts = <<>>
    /\ failed = {}
    /\ lastStartAt = Never
    /\ lastFinishAt = Never

\* const allUsers: string[] = []
Init == Start(<<>>)

\* The scheduler: notifications from every source, health queries and the
\* clock, with the connections coming up.  The socket states only enable
\* listeners and query results, so a connection that closes removes
\* scheduler behaviours and adds none; closing is followed in SpecPool.
Next ==
    \/ \E p \in ProviderIds : WsOpen(p)
    \/ \E p \in ProviderIds, u \in ChainAddresses : OnUserEvent(p, u)
    \/ \E u \in ChainAddresses : OnPendingTransaction(u)
    \/ \E u \in Users, raw \in RawHealthFactors : QueryResolve(u, raw)
    \/ \E u \in Users : QueryReject(u)
    \/ \E u \in Users : LiquidationReturn(u)
    \/ Tick

Spec == Init /\ [][Next]_vars

\* Fail-over: every socket signal, with notifications and queries, at one
\* instant of the clock
PoolNext ==
    \/ \E p \in ProviderIds : WsOpen(p)
    \/ \E p \in ProviderIds : WsClose(p)
    \/ \E p \in ProviderIds : WsError(p)
    \/ \E p \in ProviderIds, u \in ChainAddresses : OnUserEvent(p, u)
    \/ \E u \in ChainAddresses : OnPendingTransaction(u)
    \/ \E u \in Users, raw \in RawHealthFactors : QueryResolve(u, raw)
    \/ \E u \in Users : QueryReject(u)
    \/ \E u \in Users : LiquidationReturn(u)

SpecPool == Init /\ [][PoolNext]_vars

\* The alert queue: messages handed over, deliveries, timers and the clock,
\* with the bot configured.  alert.ts reads nothing of the watcher's
\* configuration, so one configuration is taken.
AlertInit == Init /\ bot /\ ~TEST_MODE /\ Len(providers) = 1

AlertNext ==
    \/ OnMinedTransaction
    \/ DeliverySettles
    \/ TimerFire
    \/ Tick

SpecAlert == AlertInit /\ [][AlertNext]_vars

\* The full scan: the interval timer and the loop of fullScan, with the
\* listeners, the health queries and the clock, over each of KnownLists.
\* The scan reads nothing of the alert queue or of the provider set-up, so
\* one configuration is taken.
ScanInit ==
    /\ \E list \in KnownLists : Start(list)
    /\ ~bot /\ ~TEST_MODE /\ Len(providers) = 1

ScanNext ==
    \/ FullScanTick
    \/ \E s \in ScanIds : ScanStep(s)
    \/ \E p \in ProviderIds : WsOpen(p)
    \/ \E p \in ProviderIds, u \in ChainAddresses : OnUserEvent(p, u)
    \/ \E u \in ChainAddresses : OnPendingTransaction(u)
    \/ \E u \in Users, raw \in RawHealthFactors : QueryResolve(u, raw)
    \/ \E u \in Users : QueryReject(u)
    \/ \E u \in Users : LiquidationReturn(u)
    \/ Tick

SpecScan == ScanInit /\ [][ScanNext]_vars

SpecAlertFair ==
    /\ SpecAlert
    /\ WF_vars(DeliverySettles)
    /\ WF_vars(TimerFire)
    /\ WF_vars(Tick)

---------------------------------------------------------------------------
(* Properties *)

\* users whose getUserAccountData call has not settled
Outstanding == { u \in Users : pc[u] = "query" }

\* C1: in every reachable state the number of health queries issued and not
\* yet completed is at most the concurrency cap.
C1_OutstandingWithinCap == Cardinality(Outstanding) <= MAX_CONCURRENT_CHECKS

\* C1 witness: the cap is reached while a further user could otherwise be
\* admitted (not in flight, not debounced).
C1_CapReached ==
    /\ Cardinality(Outstanding) = MAX_CONCURRENT_CHECKS
    /\ \E u \in Users : u \notin activeUsers /\ ~shouldSkipUser(u)

\* two strings that name the same account
SameAddress(u1, u2) == toLowerCase(u1) = toLowerCase(u2)

\* C2 (as claimed): for any address, two notifications less than the
\* debounce window apart issue at most one query, whatever their sources:
\* any two queries issued for one address are at least USER_DEBOUNCE_SECONDS
\* apart.
C2_OneQueryPerWindow ==
    \A u1, u2 \in Users :
      \A i \in DOMAIN issuedAt[u1], j \in DOMAIN issuedAt[u2] :
        (SameAddress(u1, u2) /\ (u1 # u2 \/ i < j))
          => (issuedAt[u2][j] - issuedAt[u1][i] >= USER_DEBOUNCE_SECONDS
              \/ issuedAt[u1][i] - issuedAt[u2][j] >= USER_DEBOUNCE_SECONDS)

\* the metric recorded for the string user, +infinity if none
Recorded(user) ==
    IF user \in DOMAIN userHealthCache THEN userHealthCache[user] ELSE Infinity

OpenProviders == { p \in Range(providers) : wsState[p] = "Open" }

\* C4 (as claimed): if some connection is open, the active reference
\* designates an open connection; if none is open, it is empty.
C4_ActiveIffSomeOpen ==
    /\ OpenProviders # {} => activeProvider \in OpenProviders
    /\ OpenProviders = {} => activeProvider = NoProvider

\* ids of the messages a run can hand to sendAlert
MessageIds == 1 .. MaxAlerts

Attempted(m) == \E i \in DOMAIN attempts : attempts[i] = m
Queued(m) == \E i \in DOMAIN ALERT_QUEUE : ALERT_QUEUE[i] = m
TimesAttempted(m) == Cardinality({ i \in DOMAIN attempts : attempts[i] = m })

\* C5: with the bot configured, delivery attempts are started in exactly the
\* order in which the messages were enqueued (message n is the n-th enqueued).
C5_AttemptsInEnqueueOrder ==
    bot => \A i \in DOMAIN attempts : attempts[i] = i

\* C5 witness: several attempts were made while a message was waiting.
C5_AttemptedWhileQueued == Len(attempts) >= 2 /\ ALERT_QUEUE # <<>>

\* C6 (as claimed): a delivery attempt starts at least TELEGRAM_INTERVAL_MS
\* after the attempt before it finished.
C6_SpacedAttempts ==
    (inflight # {} /\ lastFinishAt # Never)
      => lastStartAt - lastFinishAt >= TELEGRAM_INTERVAL_MS

\* C7: at most one delivery attempt is outstanding.
C7_OneDeliveryOutstanding == Cardinality(inflight) <= 1

\* C7 witness: several timers are pending at once after two deliveries, with
\* a message still queued for them.
C7_SeveralTimersPending ==
    Len(timers) >= 2 /\ Len(attempts) >= 2 /\ ALERT_QUEUE # <<>>

\* C8 (as claimed): a query issued while some connection is active was
\* issued through that connection.
C8_QueryThroughActive ==
    \A u \in Users :
      (pc[u] = "query" /\ activeAtIssue[u] # NoProvider)
        => queryVia[u] = activeAtIssue[u]

\* C9: every message accepted by sendAlert with the bot configured is
\* eventually attempted, is attempted at most once and is never in the queue
\* again once attempted, when deliveries settle and timers fire.
C9_EveryMessageAttemptedOnce ==
    \A m \in MessageIds :
      /\ (handed >= m) ~> Attempted(m)
      /\ [](TimesAttempted(m) <= 1)
      /\ [](Attempted(m) => ~Queued(m))

\* C9 witness: every message handed over has been attempted, the last one
\* after waiting in the queue for its timer.
C9_LastMessageAttempted ==
    /\ handed = MaxAlerts
    /\ Len(attempts) = MaxAlerts
    /\ inflight = {MaxAlerts} /\ timers = <<>>
    /\ lastFinishAt # Never
    /\ lastStartAt - lastFinishAt >= TELEGRAM_INTERVAL_MS

\* C10: a message whose delivery failed is not in the queue, is not being
\* delivered and was attempted once; the failure frees the sending slot; and
\* every message queued after a failure is attempted.
C10_FailedMessageDropped ==
    /\ \A m \in MessageIds :
         [](m \in failed => ~Queued(m) /\ m \notin inflight /\ TimesAttempted(m) = 1)
    /\ [][\A m \in MessageIds :
            (m \notin failed /\ m \in failed') => ~sending' /\ inflight' = inflight \ {m}]_vars
    /\ \A k \in MessageIds : (failed # {} /\ Queued(k)) ~> Attempted(k)

\* C10 witness: a delivery failed and a later message was attempted after it.
C10_AttemptAfterFailure ==
    \E i \in DOMAIN attempts : attempts[i] \in failed /\ i < Len(attempts)

\* a notification for key user would be rejected by the debounce test
InsideWindow(user) ==
    /\ user \in DOMAIN lastCheck
    /\ nowSeconds - lastCheck[user] < USER_DEBOUNCE_SECONDS

\* the gate rejects a notification for key user
Rejected(user) ==
    \/ user \in activeUsers
    \/ InsideWindow(user)
    \/ activeChecks >= MAX_CONCURRENT_CHECKS

\* the key a fullScan invocation passed to checkUserHealth last
LastCalled(calls) == calls[Len(calls)]

\* C11: a fullScan invocation passes to checkUserHealth the entries of the
\* list in list order, each once and so at most as many as the list has; it
\* makes a call only when the check it awaited has ended; a call the gate
\* rejects (key in flight, inside the debounce window, counter at the cap)
\* changes nothing of the scheduler and one it admits marks the key, stamps
\* it, adds one to the counter and is awaited; and with invocations
\* overlapping each other and the listeners, the queries outstanding stay
\* within the cap, the counter equals the number of marks and the queries of
\* one key are a debounce window apart.
C11_SweepThroughGate ==
    /\ [](\A s \in ScanIds :
            /\ Len(scanCalls[s]) <= Len(allUsers)
            /\ scanCalls[s] = SubSeq(allUsers, 1, Len(scanCalls[s]))
            /\ scanWait[s] # NoUser =>
                 /\ scanWait[s] \in activeUsers
                 /\ scanWait[s] = LastCalled(scanCalls[s]))
    /\ [](/\ Cardinality(Outstanding) <= MAX_CONCURRENT_CHECKS
          /\ activeChecks = Cardinality(activeUsers)
          /\ \A u \in Users :
               Len(issuedAt[u]) = 2 =>
                 issuedAt[u][2] - issuedAt[u][1] >= USER_DEBOUNCE_SECONDS)
    /\ [][\A s \in ScanIds :
            scanCalls'[s] # scanCalls[s] =>
              LET u == LastCalled(scanCalls'[s])
              IN  /\ Len(scanCalls'[s]) = Len(scanCalls[s]) + 1
                  /\ scanWait[s] = NoUser
                  /\ IF Rejected(u)
                     THEN /\ UNCHANGED <<checkVars, checkObs>>
                          /\ scanWait'[s] = NoUser
                     ELSE /\ pc'[u] = "query"
                          /\ activeUsers' = activeUsers \cup {u}
                          /\ activeChecks' = activeChecks + 1
                          /\ lastCheck'[u] = nowSeconds
                          /\ scanWait'[s] = u]_vars

\* C11 witness: one invocation awaits the check it started, a second one,
\* started meanwhile, had its call rejected and is part way through the
\* list, and a listener's query is outstanding beside them.
C11_OverlappingSweeps ==
    /\ \E s, t \in ScanIds :
         /\ s # t
         /\ scanWait[s] # NoUser
         /\ scanCalls[t] # <<>> /\ scanWait[t] = NoUser
         /\ scanPos[t] <= Len(allUsers)
    /\ \E u \in Outstanding : \A s \in ScanIds : scanWait[s] # u

\* C12 (as claimed): for every address at most one health query is
\* outstanding, whatever the letter case in which its notifications arrive.
C12_OneQueryPerAddress ==
    \A u1, u2 \in Outstanding : SameAddress(u1, u2) => u1 = u2

\* C13: the in-flight mark of a key is held exactly while its check runs;
\* every settled query ends the check, at once or after the awaited
\* handleLiquidation; and the step that ends a check clears the mark and
\* takes exactly one off the counter, leaving it under the cap.
C13_CompletionReleasesSlot ==
    /\ [](\A u \in Users : u \in activeUsers <=> pc[u] # "idle")
    /\ [][\A u \in Users :
            /\ (\E raw \in RawHealthFactors : QueryResolve(u, raw))
                 => pc'[u] \in {"idle", "liquidation"}
            /\ QueryReject(u) => pc'[u] = "idle"
            /\ (pc[u] # "idle" /\ pc'[u] = "idle")
                 => /\ u \notin activeUsers'
                    /\ activeUsers' = activeUsers \ {u}
                    /\ activeChecks' = activeChecks - 1
                    /\ activeChecks' < MAX_CONCURRENT_CHECKS]_vars

\* C13 witness: more keys have been admitted than the cap allows at once, so
\* a completion released the slot a later notification took.
C13_AdmittedAfterRelease ==
    /\ Cardinality(DOMAIN lastCheck) > MAX_CONCURRENT_CHECKS
    /\ activeChecks >= 1

\* C14 (as claimed): a failed query changes neither the recorded metric nor
\* the alerts handed over, and keeps the admission time, so that right after
\* a failure inside the window the address is not admissible under any
\* spelling: it is in flight or inside its debounce window.
C14_FailureKeepsDebounce ==
    [][\A u \in Users :
         QueryReject(u) =>
           /\ userHealthCache' = userHealthCache
           /\ handed' = handed
           /\ lastCheck' = lastCheck
           /\ InsideWindow(u) =>
                \A v \in Users :
                  SameAddress(u, v) => v \in activeUsers' \/ InsideWindow(v)']_vars

\* a listener hands key user to checkUserHealth
Notified(user) ==
    \/ \E p \in ProviderIds, a \in ChainAddresses :
         toLowerCase(a) = user /\ OnUserEvent(p, a)
    \/ OnPendingTransaction(user)

\* C15: a notification the gate rejects changes nothing; one it admits marks
\* its key and adds one to the counter; and a query is issued only in the
\* step of a notification for its key, never later for a rejected one.
C15_RejectedIsNoOp ==
    [][\A u \in Users :
         /\ (Notified(u) /\ Rejected(u)) => UNCHANGED vars
         /\ (Notified(u) /\ ~Rejected(u))
              => /\ pc'[u] = "query"
                 /\ activeUsers' = activeUsers \cup {u}
                 /\ activeChecks' = activeChecks + 1
         /\ (pc[u] # "query" /\ pc'[u] = "query") => Notified(u)]_vars

\* C15 witness: as many queries as the cap allows were issued at one instant
\* and a fresh key is left, whose notification the cap rejects.
C15_CapRejectsFresh ==
    /\ activeChecks = MAX_CONCURRENT_CHECKS
    /\ \A u \in activeUsers : pc[u] = "query" /\ lastCheck[u] = nowSeconds
    /\ \E u \in Users : u \notin DOMAIN lastCheck

\* C16 (as claimed): after a close or an error signal for the active
\* connection, itself open until then, the active reference designates an
\* open connection if one exists and is empty if none does.
C16_FailoverToOpen ==
    [][\A p \in ProviderIds :
         ((WsClose(p) \/ WsError(p)) /\ activeProvider = p /\ p \in OpenProviders) =>
           LET open == { q \in Range(providers) : wsState'[q] = "Open" }
           IN  /\ open # {} => activeProvider' \in open
               /\ open = {} => activeProvider' = NoProvider]_vars

\* C17: an open signal leaves a non-empty active reference as it is and makes
\* the opening connection active when the reference is empty; a close signal
\* for a connection that is not the active one leaves the reference as it is.
C17_OnlyPromoteWhenEmpty ==
    [][\A p \in ProviderIds :
         /\ WsOpen(p) =>
              activeProvider' =
                IF activeProvider # NoProvider THEN activeProvider ELSE p
         /\ (WsClose(p) /\ activeProvider # p) =>
              activeProvider' = activeProvider]_vars

\* C17 witness: the first connection closed, which made the second active,
\* and opened again without being promoted.
C17_ReopenedNotPromoted ==
    /\ Len(providers) = 2
    /\ activeProvider = providers[2]
    /\ wsState[providers[1]] = "Open"

\* C18 (as claimed): the event subscriptions are held against the active
\* connection: while the active connection is open, an event listener runs
\* for that connection only, so that one event is ingested once.
C18_IngestedThroughActive ==
    [][\A p \in ProviderIds, a \in ChainAddresses :
         (OnUserEvent(p, a) /\ activeProvider \in OpenProviders)
           => p = activeProvider]_vars

\* C19 (as claimed): every key the gate has marked, stamped or recorded a
\* metric under is in case-folded form.
C19_KeysCaseFolded ==
    \A u \in activeUsers \cup DOMAIN lastCheck \cup DOMAIN userHealthCache :
      toLowerCase(u) = u

\* C20: the counter of checks in flight equals the number of keys marked in
\* flight and is never negative.
C20_CounterMatchesMarks ==
    /\ activeChecks = Cardinality(activeUsers)
    /\ activeChecks >= 0

\* C20 witness: a check is in flight after another one has completed with a
\* metric recorded and a third with none.
C20_AfterCompletions ==
    /\ activeChecks >= 1
    /\ \E u \in Users : pc[u] = "idle" /\ u \in DOMAIN userHealthCache
    /\ \E u \in Users :
         pc[u] = "idle" /\ u \in DOMAIN lastCheck /\ u \notin DOMAIN userHealthCache

====
